---- MODULE Spec2Model ----
(***************************************************************************)
(* IGDB / SteamSpy enrichment pipeline.                                    *)
(*                                                                         *)
(*   enrich_igdb_with_steam.py   find_steam_app_id, get_steamspy_data,     *)
(*                               enrich_igdb_with_steam_data, main         *)
(*   retry_failed_steamspy.py    find_steam_app_id, get_steamspy_data,     *)
(*                               retry_failed_fetches, main                *)
(*                                                                         *)
(* Python values are modelled as records with a fixed set of fields, so    *)
(* that any two values of one kind can be compared.                        *)
(***************************************************************************)
EXTENDS Integers, Sequences, FiniteSets, TLC

\* ------------------------------------------------------------------ bounds
\* Steam app ids are 1..MaxId.
MaxId == 2
\* Longest catalog, enriched dataset and failure list.
MaxGames == 2
\* Runs of the two entry points (enrich main, retry main) in one behaviour.
MaxRuns == 2
\* Times retry_failed_fetches is called again on what it returned.
MaxRepeats == 1

Ids == 1..MaxId

\* ------------------------------------------------------------ JSON values
\* A 'uid' value of a cross-reference entry, t is its Python type:
\*   "int" (n holds it), "str" (s holds its characters), "null" (None),
\*   "missing" (the entry has no 'uid' key).
IntUid(n) == [t |-> "int", n |-> n, s |-> <<>>]
StrUid(s) == [t |-> "str", n |-> 0, s |-> s]
NullUid == [t |-> "null", n |-> 0, s |-> <<>>]
MissingUid == [t |-> "missing", n |-> 0, s |-> <<>>]

\* The 'external_game_source' of an entry: hasSource is whether the key is
\* present, hasName whether the sub-mapping has a 'name', name its value.
Source(name) == [hasSource |-> TRUE, hasName |-> TRUE, name |-> name]
SourceNoName == [hasSource |-> TRUE, hasName |-> FALSE, name |-> ""]
NoSource == [hasSource |-> FALSE, hasName |-> FALSE, name |-> ""]

Entry(src, uid) == [external_game_source |-> src, uid |-> uid]

\* A SteamSpy payload; NoPayload fills the field of a record without one.
Payload(appid, owners) == [appid |-> appid, owners |-> owners]
NoPayload == Payload(0, 0)

\* A game record: hasExt is "'external_games' in game", hasSteamInfo is
\* "'steamInfo' in game".
Game(hasExt, ext) ==
    [hasExt |-> hasExt, external_games |-> ext,
     hasSteamInfo |-> FALSE, steamInfo |-> NoPayload]

\* game['steamInfo'] = data
SetSteamInfo(game, data) ==
    [game EXCEPT !.hasSteamInfo = TRUE, !.steamInfo = data]

\* The record without its 'steamInfo' key.
StripSteamInfo(game) ==
    [game EXCEPT !.hasSteamInfo = FALSE, !.steamInfo = NoPayload]

\* ------------------------------------------------------------------ int()
DigitVal ==
    [c \in {"0", "1", "2", "3", "4", "5", "6", "7", "8", "9"} |->
        CASE c = "0" -> 0 [] c = "1" -> 1 [] c = "2" -> 2 [] c = "3" -> 3
          [] c = "4" -> 4 [] c = "5" -> 5 [] c = "6" -> 6 [] c = "7" -> 7
          [] c = "8" -> 8 [] c = "9" -> 9]

IsDigits(s) == Len(s) > 0 /\ \A k \in 1..Len(s) : s[k] \in DOMAIN DigitVal

RECURSIVE DigitsValue(_)
DigitsValue(s) ==
    IF Len(s) = 0 THEN 0
    ELSE 10 * DigitsValue(SubSeq(s, 1, Len(s) - 1)) + DigitVal[s[Len(s)]]

RECURSIVE StripSpaces(_)
StripSpaces(s) ==
    IF Len(s) > 0 /\ s[1] = " " THEN StripSpaces(Tail(s))
    ELSE IF Len(s) > 0 /\ s[Len(s)] = " "
         THEN StripSpaces(SubSeq(s, 1, Len(s) - 1))
         ELSE s

\* int(s) of a string: surrounding blanks are dropped, one sign is allowed,
\* the rest must be decimal digits; anything else is a ValueError.
IntOfStr(s) ==
    LET t == StripSpaces(s)
        signed == Len(t) > 0 /\ t[1] \in {"-", "+"}
        digits == IF signed THEN Tail(t) ELSE t
    IN  IF IsDigits(digits)
        THEN [ok |-> TRUE,
              v |-> IF signed /\ t[1] = "-" THEN 0 - DigitsValue(digits)
                    ELSE DigitsValue(digits)]
        ELSE [ok |-> FALSE, v |-> 0]

\* int(external_game.get('uid', 0)): ok = FALSE is ValueError / TypeError.
IntOfUid(uid) ==
    CASE uid.t = "int" -> [ok |-> TRUE, v |-> uid.n]
      [] uid.t = "str" -> IntOfStr(uid.s)
      [] uid.t = "missing" -> [ok |-> TRUE, v |-> 0]
      [] uid.t = "null" -> [ok |-> FALSE, v |-> 0]

\* ------------------------------------------------------ find_steam_app_id
\* Result of find_steam_app_id: an int, None, or an exception that leaves
\* the function.
FoundId(v) == [kind |-> "int", v |-> v]
FoundNone == [kind |-> "none", v |-> 0]
FoundRaise == [kind |-> "raise", v |-> 0]

\* bool(steam_app_id) in "if steam_app_id"
Truthy(r) == r.kind = "int" /\ r.v # 0

\* Variant: the scan goes on to the last matching entry.
RECURSIVE EnrichScanLast(_, _)
EnrichScanLast(ext, k) ==
    IF k > Len(ext) THEN FoundNone
    ELSE LET src == ext[k].external_game_source
             conv == IntOfUid(ext[k].uid)
             rest == EnrichScanLast(ext, k + 1)
         IN  IF ~src.hasSource \/ ~src.hasName THEN FoundRaise
             ELSE IF src.name = "Steam" /\ conv.ok /\ rest.kind = "none"
                  THEN FoundId(conv.v)
                  ELSE rest

\* enrich_igdb_with_steam.py: external_game.get('external_game_source')['name']
\* subscripts None when the key is missing (TypeError) and misses the key
\* 'name' when the sub-mapping has none (KeyError); neither is caught.
RECURSIVE EnrichScan(_, _)
EnrichScan(ext, k) ==
    IF k > Len(ext) THEN FoundNone
    ELSE LET src == ext[k].external_game_source
             conv == IntOfUid(ext[k].uid)
         IN  IF ~src.hasSource \/ ~src.hasName THEN FoundRaise
             ELSE IF src.name = "Steam"
                  THEN IF conv.ok THEN FoundId(conv.v)
                       ELSE EnrichScan(ext, k + 1)
                  ELSE EnrichScan(ext, k + 1)

EnrichFindSteamAppId(game) ==
    EnrichScan(IF game.hasExt THEN game.external_games ELSE <<>>, 1)

\* Variant: the scan ends at the first Steam entry, convertible or not.
RECURSIVE RetryScanStops(_, _)
RetryScanStops(ext, k) ==
    IF k > Len(ext) THEN FoundNone
    ELSE LET src == ext[k].external_game_source
             conv == IntOfUid(ext[k].uid)
         IN  IF src.hasSource /\ src.hasName /\ src.name = "Steam"
             THEN IF conv.ok THEN FoundId(conv.v) ELSE FoundNone
             ELSE RetryScanStops(ext, k + 1)

\* retry_failed_steamspy.py:
\* external_game.get('external_game_source', {}).get('name') is None for a
\* missing key or name.
RECURSIVE RetryScan(_, _)
RetryScan(ext, k) ==
    IF k > Len(ext) THEN FoundNone
    ELSE LET src == ext[k].external_game_source
             conv == IntOfUid(ext[k].uid)
         IN  IF src.hasSource /\ src.hasName /\ src.name = "Steam"
             THEN IF conv.ok THEN FoundId(conv.v)
                  ELSE RetryScan(ext, k + 1)
             ELSE RetryScan(ext, k + 1)

RetryFindSteamAppId(game) ==
    RetryScan(IF game.hasExt THEN game.external_games ELSE <<>>, 1)

\* ------------------------------------------------------- get_steamspy_data
\* What the HTTP exchange of one requests.get() produces:
\*   "transport"  requests raises (connection error, timeout)
\*   "status"     raise_for_status() raises (non-2xx)
\*   "badjson"    response.json() raises
\*   "json"       a parsed body: empty ({} or null), without an 'appid', or
\*                with 'appid' = appid; owners stands for the other fields.
\*   "timeout"    no answer within timeout=10 (requests raises Timeout)
\*   "nonobject"  a parsed body that is a non-empty list, string or number:
\*                data.get raises AttributeError
Resp(kind, empty, hasAppid, appid, owners) ==
    [kind |-> kind, empty |-> empty, hasAppid |-> hasAppid,
     appid |-> appid, owners |-> owners]

\* Two payloads for one appid differ in 'owners'.
OwnersValues == {1, 2}

Responses ==
    {Resp(k, TRUE, FALSE, 0, 0) : k \in {"transport", "status", "badjson", "json"}}
    \cup {Resp("json", FALSE, FALSE, 0, o) : o \in OwnersValues}
    \cup {Resp("json", FALSE, TRUE, a, o) : a \in Ids, o \in OwnersValues}

\* The responses a driver called on its own is run with: those above, a
\* timeout and a body that is no object.
DriverResponses ==
    Responses
    \cup {Resp("timeout", TRUE, FALSE, 0, 0), Resp("nonobject", FALSE, FALSE, 0, 0)}

\* The responses get_steamspy_data is called on by itself: those of the
\* drivers and bodies that echo an 'appid' outside the ids asked for.
ProbeResponses ==
    DriverResponses
    \cup {Resp("json", FALSE, TRUE, a, o) : a \in {0, MaxId + 1}, o \in OwnersValues}

\* Result of get_steamspy_data: ok = FALSE is a returned None, raised is an
\* exception that leaves the function.
Fetched(data) == [ok |-> TRUE, raised |-> FALSE, data |-> data]
FetchNone == [ok |-> FALSE, raised |-> FALSE, data |-> NoPayload]
FetchRaise == [ok |-> FALSE, raised |-> TRUE, data |-> NoPayload]

\* The exception raised inside the try block, "none" when the block runs
\* to one of its return statements.
TryException(resp) ==
    CASE resp.kind = "transport" -> "ConnectionError"
      [] resp.kind = "timeout" -> "Timeout"
      [] resp.kind = "status" -> "HTTPError"
      [] resp.kind = "badjson" -> "JSONDecodeError"
      [] resp.kind = "nonobject" -> "AttributeError"
      [] OTHER -> "none"

\* isinstance(exc, cls) for the classes named in the except clauses.
IsInstance(exc, cls) ==
    \/ cls = "Exception"
    \/ cls = exc
    \/ cls = "RequestException" /\ exc \in {"ConnectionError", "Timeout", "HTTPError"}

\* The except clauses of the two versions.
EnrichExcepts == {"RequestException", "JSONDecodeError", "Exception"}
RetryExcepts == {"Exception"}

\* Variant: the catch-all clause is not there.
HandledNarrow(exc, clauses) ==
    \E cls \in clauses \ {"Exception"} : IsInstance(exc, cls)

\* Some except clause of the try statement takes the exception.
Handled(exc, clauses) == \E cls \in clauses : IsInstance(exc, cls)

\* Variant: a body with an 'appid' is returned whatever the id asked for.
ValidPayloadAnyId(app_id, resp) == ~resp.empty /\ resp.hasAppid

\* "if data and data.get('appid') == app_id"
ValidPayload(app_id, resp) ==
    ~resp.empty /\ resp.hasAppid /\ resp.appid = app_id

\* enrich_igdb_with_steam.py: each except clause returns None.
GetSteamspyData(app_id, resp) ==
    IF TryException(resp) # "none"
    THEN IF Handled(TryException(resp), EnrichExcepts) THEN FetchNone
         ELSE FetchRaise
    ELSE IF ValidPayload(app_id, resp)
         THEN Fetched(Payload(resp.appid, resp.owners))
         ELSE FetchNone

\* retry_failed_steamspy.py: one "except Exception", the same test.
RetryGetSteamspyData(app_id, resp) ==
    IF TryException(resp) # "none"
    THEN IF Handled(TryException(resp), RetryExcepts) THEN FetchNone
         ELSE FetchRaise
    ELSE IF ValidPayload(app_id, resp)
         THEN Fetched(Payload(resp.appid, resp.owners))
         ELSE FetchNone

\* ------------------------------------------------------------------ files
\* A JSON document on disk: "absent", "ok" (content holds the parsed
\* document) or "corrupt" (truncated or partly written: json.load raises).
FileAbsent == [state |-> "absent", content |-> <<>>]
FileOk(content) == [state |-> "ok", content |-> content]
FileCorrupt == [state |-> "corrupt", content |-> <<>>]

\* with open(path, 'w') as f: json.dump(content, f)
\*   "ok"          the document is replaced
\*   "open_error"  open() raises: the file is as it was
\*   "dump_error"  open() has truncated the file and the write raises
WriteOutcomes == {"ok", "open_error", "dump_error"}

WriteFile(old, content, w) ==
    CASE w = "ok" -> FileOk(content)
      [] w = "open_error" -> old
      [] w = "dump_error" -> FileCorrupt

\* The loaders of both modules: any exception is logged and gives [].
LoadList(file, readable) ==
    IF readable /\ file.state = "ok" THEN file.content ELSE <<>>

\* ----------------------------------------------------------------- inputs
\* str(n) for the ids of the model (one decimal digit each).
DigitChar == <<"1", "2", "3", "4", "5", "6", "7", "8", "9">>

SteamStr(n) == Entry(Source("Steam"), StrUid(<<DigitChar[n]>>))

\* The catalog records the drivers are run on: without cross-references,
\* with a Steam entry for each id (uid a string, as IGDB sends it), with a
\* Steam entry of uid 0, with a non-numeric Steam uid, with a Steam entry
\* behind an entry of another system, with two Steam entries, and with an
\* entry that has no 'external_game_source'.
CatalogGames ==
    {Game(FALSE, <<>>)}
    \cup {Game(TRUE, <<SteamStr(n)>>) : n \in Ids}
    \cup {Game(TRUE, <<Entry(Source("Steam"), IntUid(0))>>),
          Game(TRUE, <<Entry(Source("Steam"), StrUid(<<"x">>))>>),
          Game(TRUE, <<Entry(Source("GOG"), StrUid(<<"2">>)), SteamStr(1)>>),
          Game(TRUE, <<SteamStr(MaxId), SteamStr(1)>>),
          Game(TRUE, <<Entry(NoSource, StrUid(<<"1">>))>>)}

\* Sequences over S of length at most n.
SeqsUpTo(S, n) == UNION {[1..k -> S] : k \in 0..n}

Catalogs == SeqsUpTo(CatalogGames, MaxGames)

\* The catalogs the entry points are run on: records without
\* cross-references, with a Steam entry for each id, and with an entry that
\* has no 'external_game_source'.
MainGames ==
    {Game(FALSE, <<>>), Game(TRUE, <<Entry(NoSource, StrUid(<<"1">>))>>)}
    \cup {Game(TRUE, <<SteamStr(n)>>) : n \in Ids}

MainCatalogs == SeqsUpTo(MainGames, MaxGames) \ {<<>>}

\* The responses the enrich entry point is run with: SteamSpy has one
\* payload for an id while the catalog is enriched; by the time of a retry
\* run the figures may be others.
MainEnrichResponses == {r \in Responses : r.owners \in {0, 1}}

\* The Steam app lists the entry points are run with: empty, every id, and
\* every id but the largest.
MainAppLists == {{}, Ids, Ids \ {MaxId}}

\* The records of the datasets retry_failed_fetches is called with: those
\* of MainGames, and one that carries a 'steamInfo' of an earlier run.
EnrichedGames ==
    MainGames \cup {SetSteamInfo(Game(TRUE, <<SteamStr(1)>>), Payload(1, 1))}

Datasets == SeqsUpTo(EnrichedGames, MaxGames)

FailureLists == SeqsUpTo(Ids, MaxGames)

\* ------------------------------------------------------------------ state
VARIABLES
    pc,                      \* "idle", "enrich_loop", "retry_loop", "returned", "raised"
    mode,                    \* "fn": one call of a driver; "main": the entry points
    runs,                    \* entry-point runs started; calls made again
    last_run,                \* "none", "enrich", "retry": the run pc belongs to
    exit,                    \* how the last main ended: "none", "early", "raised", "done"
    igdb_file,               \* igdb_games.json
    steam_applist,           \* the appids of steam_applist.json
    enriched_file,           \* igdb_games_enriched.json
    failed_file,             \* failed_steamspy_fetches.json
    igdb_games,              \* enrich: the list passed in
    steam_apps_dict,         \* enrich: the keys of the dict passed in
    enriched_games,          \* enrich: the output list; retry: the list passed in
    failed_steam_ids,        \* enrich: the failures so far; retry: the list passed in
    still_failed,            \* retry
    steam_id_to_game_index,  \* retry
    idx,                     \* position of the loop (1-based)
    success_count,           \* steam_enriched_count / success_count
    arg_games,               \* the games as they were when the driver was called
    trace,                   \* the get_steamspy_data and time.sleep calls of the run
    chain,                   \* retry called again on its own results: the first
                             \* call's arguments, and whether a fetch has succeeded
    probe,                   \* a record and what find_steam_app_id returned for it
    call,                    \* an id, a response and what get_steamspy_data returned
    igdb_pc,                 \* fetch_games: "idle", "loop", "returned", "raised"
    access_token,            \* fetch_games: bool(self.access_token)
    max_games,               \* fetch_games: None or an int
    batch_size,              \* fetch_games
    all_games,               \* fetch_games: the records collected, by their rank
    offset,                  \* fetch_games
    requests,                \* the make_api_request calls of fetch_games
    available                \* the records the IGDB query matches

files == <<igdb_file, steam_applist, enriched_file, failed_file>>
locals ==
    <<igdb_games, steam_apps_dict, enriched_games, failed_steam_ids,
      still_failed, steam_id_to_game_index, idx, success_count, arg_games, trace,
      chain>>
igdb ==
    <<igdb_pc, access_token, max_games, batch_size, all_games, offset, requests,
      available>>
probes == <<probe, call, igdb>>
vars == <<pc, mode, runs, last_run, exit, files, locals, probes>>

Chain(failed, games, ok_seen) ==
    [failed |-> failed, games |-> games, ok_seen |-> ok_seen]
NoChain == Chain(<<>>, <<>>, FALSE)

\* One call recorded in trace.
FetchEvent(pos, app_id, r) ==
    [op |-> "fetch", pos |-> pos, app_id |-> app_id, ok |-> r.ok, data |-> r.data]
SleepEvent(pos, app_id) ==
    [op |-> "sleep", pos |-> pos, app_id |-> app_id, ok |-> FALSE, data |-> NoPayload]

\* Variant: the delay is skipped after a successful fetch.
AttemptEventsDelayOnFailure(pos, app_id, r) ==
    IF r.ok THEN <<FetchEvent(pos, app_id, r)>>
    ELSE <<FetchEvent(pos, app_id, r), SleepEvent(pos, app_id)>>

\* The calls of one attempt: get_steamspy_data(app_id), then, after the
\* if / else on its result, time.sleep(0.5).
AttemptEvents(pos, app_id, r) ==
    <<FetchEvent(pos, app_id, r), SleepEvent(pos, app_id)>>

EmptyIndex == [id \in {} |-> 0]

\* Variant: an id that no record carries is stored with the first position.
RECURSIVE BuildIndexTotal(_, _, _)
BuildIndexTotal(games, i, index) ==
    IF i > Len(games)
    THEN IF Len(games) = 0 THEN index
         ELSE [id \in Ids \cup DOMAIN index |->
                  IF id \in DOMAIN index THEN index[id] ELSE 1]
    ELSE LET found == RetryFindSteamAppId(games[i])
         IN  BuildIndexTotal(games, i + 1,
                 IF Truthy(found)
                 THEN [id \in DOMAIN index \cup {found.v} |->
                          IF id = found.v THEN i ELSE index[id]]
                 ELSE index)

\* retry_failed_fetches, the pre-pass: a later record with the same id
\* replaces the position stored for an earlier one.
RECURSIVE BuildIndex(_, _, _)
BuildIndex(games, i, index) ==
    IF i > Len(games) THEN index
    ELSE LET found == RetryFindSteamAppId(games[i])
         IN  BuildIndex(games, i + 1,
                 IF Truthy(found)
                 THEN [id \in DOMAIN index \cup {found.v} |->
                          IF id = found.v THEN i ELSE index[id]]
                 ELSE index)

\* ------------------------------------------ enrich_igdb_with_steam_data
\* The state on entry to enrich_igdb_with_steam_data(games, dict).
EnterEnrich(games, dict) ==
    /\ pc' = "enrich_loop"
    /\ last_run' = "enrich"
    /\ igdb_games' = games
    /\ arg_games' = games
    /\ steam_apps_dict' = dict
    /\ enriched_games' = <<>>
    /\ failed_steam_ids' = <<>>
    /\ success_count' = 0
    /\ idx' = 1
    /\ trace' = <<>>
    /\ still_failed' = <<>>
    /\ steam_id_to_game_index' = EmptyIndex
    /\ chain' = NoChain

\* Variant: the working record is the input record itself.
InputAfterAlias(games, i, enriched_game) == [games EXCEPT ![i] = enriched_game]

\* enriched_game = igdb_game.copy(): the working record is a new dict, so
\* setting its 'steamInfo' leaves the record of the input list as it was.
InputAfterCopy(games, i, enriched_game) == games

\* Variant: the Steam app list is not consulted.
EnrichGateNoIndex(found, dict) == Truthy(found)

\* "if steam_app_id and steam_app_id in steam_apps_dict"
EnrichGate(found, dict) == Truthy(found) /\ found.v \in dict

\* Variant: the field is set whatever the fetch returned.
EnrichMergeAlways(game, r) == SetSteamInfo(game, r.data)

\* The working record after "if steamspy_data: enriched_game['steamInfo'] = ..."
EnrichMerge(game, r) == IF r.ok THEN SetSteamInfo(game, r.data) ELSE game

\* Variant: the identifier is recorded for every attempt.
EnrichFailedAlways(failed, app_id, r) == Append(failed, app_id)

\* failed_steam_ids after the else branch
EnrichFailed(failed, app_id, r) == IF r.ok THEN failed ELSE Append(failed, app_id)

\* Variant: the working record is put in front.
EnrichPrepend(out, enriched_game) == <<enriched_game>> \o out

\* enriched_games.append(enriched_game)
EnrichAppend(out, enriched_game) == Append(out, enriched_game)

\* An exception leaves the driver (and, under main, the process).
Raise ==
    /\ pc' = IF mode = "main" THEN "idle" ELSE "raised"
    /\ exit' = "raised"

\* One pass of the for loop; resp is what the network gives if asked.
EnrichIteration(resp) ==
    /\ pc = "enrich_loop"
    /\ idx <= Len(igdb_games)
    /\ LET igdb_game == igdb_games[idx]
           found == EnrichFindSteamAppId(igdb_game)
           r == GetSteamspyData(found.v, resp)
       IN  IF found.kind = "raise"
           THEN /\ Raise
                /\ UNCHANGED <<mode, runs, last_run, files, locals, probes>>
           ELSE IF EnrichGate(found, steam_apps_dict) /\ r.raised
           THEN /\ Raise
                /\ UNCHANGED <<mode, runs, last_run, files, locals, probes>>
           ELSE IF EnrichGate(found, steam_apps_dict)
           THEN LET enriched_game == EnrichMerge(igdb_game, r)
                IN  /\ enriched_games' = EnrichAppend(enriched_games, enriched_game)
                    /\ igdb_games' = InputAfterCopy(igdb_games, idx, enriched_game)
                    /\ failed_steam_ids' = EnrichFailed(failed_steam_ids, found.v, r)
                    /\ success_count' = success_count + (IF r.ok THEN 1 ELSE 0)
                    /\ trace' = trace \o AttemptEvents(idx, found.v, r)
                    /\ idx' = idx + 1
                    /\ UNCHANGED <<pc, mode, runs, last_run, exit, files,
                                   steam_apps_dict, still_failed,
                                   steam_id_to_game_index, arg_games, chain,
                                   probes>>
           ELSE /\ enriched_games' = EnrichAppend(enriched_games, igdb_game)
                /\ igdb_games' = InputAfterCopy(igdb_games, idx, igdb_game)
                /\ idx' = idx + 1
                /\ UNCHANGED <<pc, mode, runs, last_run, exit, files,
                               steam_apps_dict, failed_steam_ids, still_failed,
                               steam_id_to_game_index, success_count, arg_games,
                               trace, chain, probes>>

\* "if failed_steam_ids: with open(...) as f: json.dump(failed_steam_ids, f)"
\* The write is not guarded: a failure raises out of the driver.
EnrichWritesFailed(failed) == Len(failed) > 0

FailedFileAfterEnrich(failed, w) ==
    IF EnrichWritesFailed(failed) THEN WriteFile(failed_file, failed, w)
    ELSE failed_file

\* The end of enrich_igdb_with_steam_data, called on its own.
EnrichReturn(w) ==
    /\ pc = "enrich_loop"
    /\ mode = "fn"
    /\ idx > Len(igdb_games)
    /\ failed_file' = FailedFileAfterEnrich(failed_steam_ids, w)
    /\ IF EnrichWritesFailed(failed_steam_ids) /\ w # "ok"
       THEN Raise
       ELSE pc' = "returned" /\ exit' = "done"
    /\ UNCHANGED <<mode, runs, last_run, igdb_file, steam_applist,
                   enriched_file, locals, probes>>

\* ------------------------------------------------- retry_failed_fetches
\* The state after the pre-pass of retry_failed_fetches(failed, games).
EnterRetry(failed, games) ==
    /\ pc' = "retry_loop"
    /\ last_run' = "retry"
    /\ failed_steam_ids' = failed
    /\ enriched_games' = games
    /\ arg_games' = games
    /\ still_failed' = <<>>
    /\ success_count' = 0
    /\ steam_id_to_game_index' = BuildIndex(games, 1, EmptyIndex)
    /\ idx' = 1
    /\ trace' = <<>>
    /\ igdb_games' = <<>>
    /\ steam_apps_dict' = {}

\* "if steam_app_id in steam_id_to_game_index"
RetryGate(app_id, index) == app_id \in DOMAIN index

\* Variant: a failed fetch removes the field of the matched record.
RetryMergeClears(games, game_index, r) ==
    IF r.ok THEN [games EXCEPT ![game_index] = SetSteamInfo(@, r.data)]
    ELSE [games EXCEPT ![game_index] = StripSteamInfo(@)]

\* enriched_games after "if steamspy_data: enriched_games[game_index]['steamInfo'] = ..."
RetryMerge(games, game_index, r) ==
    IF r.ok THEN [games EXCEPT ![game_index] = SetSteamInfo(@, r.data)]
    ELSE games

\* Variant: the identifier is kept whatever the fetch returned.
RetryStillFailedAlways(failed, app_id, r) == Append(failed, app_id)

\* still_failed after a fetch
RetryStillFailed(failed, app_id, r) ==
    IF r.ok THEN failed ELSE Append(failed, app_id)

\* Variant: an identifier without a record is put in front.
RetryMissFront(failed, app_id) == <<app_id>> \o failed

\* still_failed after a lookup miss
RetryMiss(failed, app_id) == Append(failed, app_id)

\* One pass of the for loop over failed_steam_ids.
RetryIteration(resp) ==
    /\ pc = "retry_loop"
    /\ idx <= Len(failed_steam_ids)
    /\ LET steam_app_id == failed_steam_ids[idx]
           r == RetryGetSteamspyData(steam_app_id, resp)
       IN  IF RetryGate(steam_app_id, steam_id_to_game_index) /\ r.raised
           THEN /\ Raise
                /\ UNCHANGED <<enriched_games, still_failed, success_count,
                               trace, chain, idx>>
           ELSE IF RetryGate(steam_app_id, steam_id_to_game_index)
           THEN /\ enriched_games' =
                       RetryMerge(enriched_games,
                                  steam_id_to_game_index[steam_app_id], r)
                /\ still_failed' = RetryStillFailed(still_failed, steam_app_id, r)
                /\ success_count' = success_count + (IF r.ok THEN 1 ELSE 0)
                /\ trace' = trace \o AttemptEvents(idx, steam_app_id, r)
                /\ chain' = [chain EXCEPT !.ok_seen = @ \/ r.ok]
                /\ idx' = idx + 1
                /\ UNCHANGED <<pc, exit>>
           ELSE /\ still_failed' = RetryMiss(still_failed, steam_app_id)
                /\ idx' = idx + 1
                /\ UNCHANGED <<pc, exit, enriched_games, success_count, trace,
                               chain>>
    /\ UNCHANGED <<mode, runs, last_run, files, igdb_games,
                   steam_apps_dict, failed_steam_ids, steam_id_to_game_index,
                   arg_games, probes>>

\* "return enriched_games, still_failed", called on its own.
RetryReturn ==
    /\ pc = "retry_loop"
    /\ mode = "fn"
    /\ idx > Len(failed_steam_ids)
    /\ pc' = "returned"
    /\ exit' = "done"
    /\ UNCHANGED <<mode, runs, last_run, files, locals, probes>>

\* retry_failed_fetches called again with what it returned.
RetryAgain ==
    /\ pc = "returned"
    /\ mode = "fn"
    /\ last_run = "retry"
    /\ runs < MaxRepeats
    /\ runs' = runs + 1
    /\ EnterRetry(still_failed, enriched_games)
    /\ UNCHANGED <<mode, exit, files, chain, probes>>

\* ------------------------------------------------- the drivers on their own
\* find_steam_app_id not called yet.
NotCalled == [kind |-> "not_called", v |-> 0]
Probe(game, enrich, retry) == [game |-> game, enrich |-> enrich, retry |-> retry]
NoProbe == Probe(Game(FALSE, <<>>), NotCalled, NotCalled)

\* get_steamspy_data not called yet; a call with its argument, the response
\* of the network and the result of each version.
NotRequested == [called |-> FALSE, ok |-> FALSE, raised |-> FALSE, data |-> NoPayload]
Returned(r) == [called |-> TRUE, ok |-> r.ok, raised |-> r.raised, data |-> r.data]
Call(app_id, resp, enrich, retry) ==
    [app_id |-> app_id, resp |-> resp, enrich |-> enrich, retry |-> retry]
NoCall == Call(0, Resp("json", TRUE, FALSE, 0, 0), NotRequested, NotRequested)

\* max_games: None, or an int.
Unlimited == [none |-> TRUE, n |-> 0]
AtMost(n) == [none |-> FALSE, n |-> n]

\* fetch_games is not called.
IgdbIdle ==
    /\ igdb_pc = "idle"
    /\ access_token = FALSE
    /\ max_games = Unlimited
    /\ batch_size = 0
    /\ all_games = <<>>
    /\ offset = 0
    /\ requests = <<>>
    /\ available = 0

InitCommon ==
    /\ runs = 0
    /\ exit = "none"
    /\ igdb_file = FileAbsent
    /\ steam_applist = {}
    /\ enriched_file = FileAbsent
    /\ failed_file = FileAbsent
    /\ success_count = 0
    /\ idx = 1
    /\ trace = <<>>
    /\ still_failed = <<>>

\* enrich_igdb_with_steam_data called with any catalog and any index.
InitEnrichFn ==
    /\ InitCommon
    /\ pc = "enrich_loop"
    /\ mode = "fn"
    /\ last_run = "enrich"
    /\ igdb_games \in Catalogs
    /\ arg_games = igdb_games
    /\ steam_apps_dict \in SUBSET Ids
    /\ enriched_games = <<>>
    /\ failed_steam_ids = <<>>
    /\ steam_id_to_game_index = EmptyIndex
    /\ chain = NoChain
    /\ probe = NoProbe
    /\ call = NoCall
    /\ IgdbIdle

\* retry_failed_fetches called with any failure list and any dataset.
InitRetryFn ==
    /\ InitCommon
    /\ pc = "retry_loop"
    /\ mode = "fn"
    /\ last_run = "retry"
    /\ failed_steam_ids \in FailureLists
    /\ enriched_games \in Datasets
    /\ arg_games = enriched_games
    /\ steam_id_to_game_index = BuildIndex(enriched_games, 1, EmptyIndex)
    /\ igdb_games = <<>>
    /\ steam_apps_dict = {}
    /\ chain = Chain(failed_steam_ids, enriched_games, FALSE)
    /\ probe = NoProbe
    /\ call = NoCall
    /\ IgdbIdle

NextEnrichFn ==
    \/ \E resp \in DriverResponses : EnrichIteration(resp)
    \/ \E w \in WriteOutcomes : EnrichReturn(w)

NextRetryFn ==
    \/ \E resp \in DriverResponses : RetryIteration(resp)
    \/ RetryReturn
    \/ RetryAgain

SpecEnrich == InitEnrichFn /\ [][NextEnrichFn]_vars

SpecRetry == InitRetryFn /\ [][NextRetryFn]_vars

\* ------------------------------------------------------ the entry points
\* igdb_games[:10] in main of enrich_igdb_with_steam.py
HasExternalWindow == 10

\* any('external_games' in game for game in igdb_games[:10])
HasExternalGames(games) ==
    \E k \in 1..Len(games) : k <= HasExternalWindow /\ games[k].hasExt

\* A main that returns before its driver is called.
ExitEarly(run) ==
    /\ pc' = "idle"
    /\ last_run' = run
    /\ exit' = "early"
    /\ igdb_games' = <<>>
    /\ arg_games' = <<>>
    /\ steam_apps_dict' = {}
    /\ enriched_games' = <<>>
    /\ failed_steam_ids' = <<>>
    /\ still_failed' = <<>>
    /\ steam_id_to_game_index' = EmptyIndex
    /\ success_count' = 0
    /\ idx' = 1
    /\ trace' = <<>>
    /\ chain' = NoChain

\* main of enrich_igdb_with_steam.py up to the call of the driver; readIgdb
\* and readSteam are whether the two documents can be read.
EnrichMain(readIgdb, readSteam) ==
    /\ pc = "idle"
    /\ mode = "main"
    /\ runs < MaxRuns
    /\ runs' = runs + 1
    /\ LET games == LoadList(igdb_file, readIgdb)
           dict == IF readSteam THEN steam_applist ELSE {}
       IN  IF Len(games) = 0 \/ dict = {} \/ ~HasExternalGames(games)
           THEN ExitEarly("enrich")
           ELSE EnterEnrich(games, dict) /\ exit' = "none"
    /\ UNCHANGED <<mode, files, probes>>

\* save_enriched_data / save_updated_games / save_still_failed: the
\* exception of a failed write is logged and the caller goes on.
SaveLogged(old, content, w) == WriteFile(old, content, w)

\* The end of the driver and the rest of main: "if enriched_games:
\* save_enriched_data(enriched_games)".
EnrichMainFinish(wFailed, wEnriched) ==
    /\ pc = "enrich_loop"
    /\ mode = "main"
    /\ idx > Len(igdb_games)
    /\ failed_file' = FailedFileAfterEnrich(failed_steam_ids, wFailed)
    /\ IF EnrichWritesFailed(failed_steam_ids) /\ wFailed # "ok"
       THEN /\ Raise
            /\ UNCHANGED enriched_file
       ELSE /\ pc' = "idle"
            /\ exit' = "done"
            /\ enriched_file' =
                   IF Len(enriched_games) > 0
                   THEN SaveLogged(enriched_file, enriched_games, wEnriched)
                   ELSE enriched_file
    /\ UNCHANGED <<mode, runs, last_run, igdb_file, steam_applist, locals, probes>>

\* main of retry_failed_steamspy.py up to the loop of the driver.
RetryMain(readFailed, readEnriched) ==
    /\ pc = "idle"
    /\ mode = "main"
    /\ runs < MaxRuns
    /\ runs' = runs + 1
    /\ LET failed == LoadList(failed_file, readFailed)
           games == LoadList(enriched_file, readEnriched)
       IN  IF Len(failed) = 0 \/ Len(games) = 0
           THEN ExitEarly("retry")
           ELSE /\ EnterRetry(failed, games)
                /\ chain' = Chain(failed, games, FALSE)
                /\ exit' = "none"
    /\ UNCHANGED <<mode, files, probes>>

\* The return of the driver and the rest of main:
\* save_updated_games(updated_games); save_still_failed(still_failed).
RetryMainFinish(wGames, wFailed) ==
    /\ pc = "retry_loop"
    /\ mode = "main"
    /\ idx > Len(failed_steam_ids)
    /\ enriched_file' = SaveLogged(enriched_file, enriched_games, wGames)
    /\ failed_file' = SaveLogged(failed_file, still_failed, wFailed)
    /\ pc' = "idle"
    /\ exit' = "done"
    /\ UNCHANGED <<mode, runs, last_run, igdb_file, steam_applist, locals, probes>>

\* Before the first run: a catalog and a Steam app list are on disk, the
\* outputs are not.
Init ==
    /\ pc = "idle"
    /\ mode = "main"
    /\ runs = 0
    /\ last_run = "none"
    /\ exit = "none"
    /\ igdb_file \in {FileAbsent} \cup {FileOk(c) : c \in MainCatalogs}
    /\ steam_applist \in MainAppLists
    /\ enriched_file = FileAbsent
    /\ failed_file = FileAbsent
    /\ igdb_games = <<>>
    /\ arg_games = <<>>
    /\ steam_apps_dict = {}
    /\ enriched_games = <<>>
    /\ failed_steam_ids = <<>>
    /\ still_failed = <<>>
    /\ steam_id_to_game_index = EmptyIndex
    /\ success_count = 0
    /\ idx = 1
    /\ trace = <<>>
    /\ chain = NoChain
    /\ probe = NoProbe
    /\ call = NoCall
    /\ IgdbIdle

Next ==
    \/ \E readIgdb, readSteam \in BOOLEAN : EnrichMain(readIgdb, readSteam)
    \/ \E resp \in MainEnrichResponses : EnrichIteration(resp)
    \/ \E wFailed, wEnriched \in WriteOutcomes : EnrichMainFinish(wFailed, wEnriched)
    \/ \E readFailed, readEnriched \in BOOLEAN : RetryMain(readFailed, readEnriched)
    \/ \E resp \in Responses : RetryIteration(resp)
    \/ \E wGames, wFailed \in WriteOutcomes : RetryMainFinish(wGames, wFailed)

Spec == Init /\ [][Next]_vars

\* ------------------------------------------- find_steam_app_id on its own
\* Longest cross-reference list of a probed record.
MaxEntries == 2

\* The uid values probed: ints, decimal strings (plain, padded, signed,
\* with a leading zero), strings that are no number, None, no key.
ProbeUids ==
    {IntUid(n) : n \in 0..MaxId}
    \cup {StrUid(<<DigitChar[n]>>) : n \in Ids}
    \cup {StrUid(<<" ", "1">>), StrUid(<<"-", "1">>), StrUid(<<"0", "2">>),
          StrUid(<<"x">>), StrUid(<<"1", "x">>), StrUid(<<>>),
          NullUid, MissingUid}

ProbeEntries ==
    {Entry(Source("Steam"), u) : u \in ProbeUids}
    \cup {Entry(src, StrUid(<<"1">>)) :
            src \in {Source("steam"), Source("GOG"), SourceNoName, NoSource}}

ProbeGames ==
    {Game(FALSE, <<>>)}
    \cup {Game(TRUE, ext) : ext \in SeqsUpTo(ProbeEntries, MaxEntries)}

InitExtract ==
    /\ InitCommon
    /\ pc = "idle"
    /\ mode = "fn"
    /\ last_run = "none"
    /\ igdb_games = <<>>
    /\ arg_games = <<>>
    /\ steam_apps_dict = {}
    /\ enriched_games = <<>>
    /\ failed_steam_ids = <<>>
    /\ steam_id_to_game_index = EmptyIndex
    /\ chain = NoChain
    /\ \E g \in ProbeGames : probe = Probe(g, NotCalled, NotCalled)
    /\ call = NoCall
    /\ IgdbIdle

\* find_steam_app_id(game) of enrich_igdb_with_steam.py
ExtractEnrich ==
    /\ pc = "idle"
    /\ mode = "fn"
    /\ probe' = [probe EXCEPT !.enrich = EnrichFindSteamAppId(probe.game)]
    /\ UNCHANGED <<pc, mode, runs, last_run, exit, files, locals, call, igdb>>

\* find_steam_app_id(game) of retry_failed_steamspy.py
ExtractRetry ==
    /\ pc = "idle"
    /\ mode = "fn"
    /\ probe' = [probe EXCEPT !.retry = RetryFindSteamAppId(probe.game)]
    /\ UNCHANGED <<pc, mode, runs, last_run, exit, files, locals, call, igdb>>

NextExtract == ExtractEnrich \/ ExtractRetry

SpecExtract == InitExtract /\ [][NextExtract]_vars

\* ------------------------------------------- get_steamspy_data on its own
InitFetch ==
    /\ InitCommon
    /\ pc = "idle"
    /\ mode = "fn"
    /\ last_run = "none"
    /\ igdb_games = <<>>
    /\ arg_games = <<>>
    /\ steam_apps_dict = {}
    /\ enriched_games = <<>>
    /\ failed_steam_ids = <<>>
    /\ steam_id_to_game_index = EmptyIndex
    /\ chain = NoChain
    /\ probe = NoProbe
    /\ \E app_id \in Ids, resp \in ProbeResponses :
           call = Call(app_id, resp, NotRequested, NotRequested)
    /\ IgdbIdle

\* get_steamspy_data(app_id) of enrich_igdb_with_steam.py
FetchEnrich ==
    /\ pc = "idle"
    /\ mode = "fn"
    /\ call' = [call EXCEPT
                   !.enrich = Returned(GetSteamspyData(call.app_id, call.resp))]
    /\ UNCHANGED <<pc, mode, runs, last_run, exit, files, locals, probe, igdb>>

\* get_steamspy_data(steam_app_id) of retry_failed_steamspy.py
FetchRetry ==
    /\ pc = "idle"
    /\ mode = "fn"
    /\ call' = [call EXCEPT
                   !.retry = Returned(RetryGetSteamspyData(call.app_id, call.resp))]
    /\ UNCHANGED <<pc, mode, runs, last_run, exit, files, locals, probe, igdb>>

NextFetch == FetchEnrich \/ FetchRetry

SpecFetch == InitFetch /\ [][NextFetch]_vars

\* ------------------------------------------------------------ fetch_games
\* batch_size = min(batch_size, 500)
BatchCap == 500
\* Most records the IGDB query matches.
MaxAvailable == 3
\* Largest max_games and largest batch_size below the cap.
MaxWanted == 3

Min(a, b) == IF a <= b THEN a ELSE b

\* One make_api_request call: the offset and limit of its query, the
\* records collected when it was made, and the length of its answer.
Request(off, limit, collected, got) ==
    [offset |-> off, limit |-> limit, collected |-> collected, got |-> got]

\* The lengths of the batch the API may answer with: nothing, a part or
\* all of what was asked, or one record more than the limit, out of the
\* records from the offset on.
BatchSizes(limit, off) == 0..Min(limit + 1, available - off)

\* The records of ranks off + 1 .. off + n.
Batch(off, n) == [k \in 1..n |-> off + k]

\* Variant: the offset moves by one record.
NextOffsetByOne(off, current_batch_size) == off + 1

\* offset += current_batch_size
NextOffset(off, current_batch_size) == off + current_batch_size

\* "if max_games is not None: current_batch_size = min(batch_size,
\* max_games - len(all_games)) else: current_batch_size = batch_size"
CurrentBatchSize ==
    IF max_games.none THEN batch_size
    ELSE Min(batch_size, max_games.n - Len(all_games))

InitFetchGames ==
    /\ InitCommon
    /\ pc = "idle"
    /\ mode = "fn"
    /\ last_run = "none"
    /\ igdb_games = <<>>
    /\ arg_games = <<>>
    /\ steam_apps_dict = {}
    /\ enriched_games = <<>>
    /\ failed_steam_ids = <<>>
    /\ steam_id_to_game_index = EmptyIndex
    /\ chain = NoChain
    /\ probe = NoProbe
    /\ call = NoCall
    /\ igdb_pc = "idle"
    /\ access_token \in BOOLEAN
    /\ max_games \in {Unlimited} \cup {AtMost(n) : n \in 0..MaxWanted}
    /\ batch_size \in 0..MaxWanted \cup {BatchCap, BatchCap + 1}
    /\ all_games = <<>>
    /\ offset = 0
    /\ requests = <<>>
    /\ available \in 0..MaxAvailable

\* fetch_games up to the while loop.
FetchGamesCall ==
    /\ mode = "fn"
    /\ igdb_pc = "idle"
    /\ IF ~access_token
       THEN igdb_pc' = "returned" /\ UNCHANGED batch_size
       ELSE igdb_pc' = "loop" /\ batch_size' = Min(batch_size, BatchCap)
    /\ all_games' = <<>>
    /\ offset' = 0
    /\ UNCHANGED <<pc, mode, runs, last_run, exit, files, locals, probe, call,
                   access_token, max_games, requests, available>>

\* One pass of the while loop; n is the length of the batch the API sends,
\* raises is whether make_api_request raises instead (requests.post or
\* response.json()). The log line in front of the request divides by
\* batch_size.
FetchGamesIteration(n, raises) ==
    /\ mode = "fn"
    /\ igdb_pc = "loop"
    /\ LET current_batch_size == CurrentBatchSize
           request == Request(offset, current_batch_size, Len(all_games),
                              IF raises THEN 0 ELSE n)
       IN  IF ~max_games.none /\ Len(all_games) >= max_games.n
           THEN /\ igdb_pc' = "returned"
                /\ UNCHANGED <<all_games, offset, requests>>
           ELSE IF batch_size = 0
           THEN /\ igdb_pc' = "raised"
                /\ UNCHANGED <<all_games, offset, requests>>
           ELSE /\ n \in BatchSizes(current_batch_size, offset)
                /\ requests' = Append(requests, request)
                /\ IF raises
                   THEN igdb_pc' = "raised" /\ UNCHANGED <<all_games, offset>>
                   ELSE IF n = 0
                   THEN igdb_pc' = "returned" /\ UNCHANGED <<all_games, offset>>
                   ELSE /\ all_games' = all_games \o Batch(offset, n)
                        /\ IF n < current_batch_size
                           THEN igdb_pc' = "returned" /\ UNCHANGED offset
                           ELSE /\ igdb_pc' = "loop"
                                /\ offset' = NextOffset(offset, current_batch_size)
    /\ UNCHANGED <<pc, mode, runs, last_run, exit, files, locals, probe, call,
                   access_token, max_games, batch_size, available>>

NextFetchGames ==
    \/ FetchGamesCall
    \/ \E n \in 0..(MaxAvailable + 1), raises \in BOOLEAN :
           FetchGamesIteration(n, raises)

SpecFetchGames == InitFetchGames /\ [][NextFetchGames]_vars

\* ------------------------------------------------ either driver on its own
InitDrivers == InitEnrichFn \/ InitRetryFn

NextDrivers == NextEnrichFn \/ NextRetryFn

SpecDrivers == InitDrivers /\ [][NextDrivers]_vars

\* ================================================================ claims
Elems(seq) == {seq[k] : k \in DOMAIN seq}
Count(seq, x) == Cardinality({k \in DOMAIN seq : seq[k] = x})
FetchEvents == {k \in DOMAIN trace : trace[k].op = "fetch"}
FetchesOf(app_id) == {k \in FetchEvents : trace[k].app_id = app_id}
FetchesAt(pos) == {k \in FetchEvents : trace[k].pos = pos}
EnrichDone == last_run = "enrich" /\ pc = "returned"
RetryDone == last_run = "retry" /\ pc = "returned"

\* The record the retry lookup holds for app_id has been given a payload
\* fetched for app_id in this call.
EnrichedByRetry(app_id) ==
    /\ app_id \in DOMAIN steam_id_to_game_index
    /\ enriched_games[steam_id_to_game_index[app_id]].hasSteamInfo
    /\ \E k \in FetchesOf(app_id) : trace[k].ok

\* C1: when retry_failed_fetches has returned, every identifier of the input
\* failure list is either enriched and absent from still_failed, or occurs
\* in still_failed exactly once (also when the input list repeats it).
C1_EnrichedOrFailedOnce ==
    RetryDone =>
        \A x \in Elems(failed_steam_ids) :
            \/ x \notin Elems(still_failed) /\ EnrichedByRetry(x)
            \/ Count(still_failed, x) = 1

\* The enrich driver is in its loop or has returned.
EnrichRunning == last_run = "enrich" /\ pc \in {"enrich_loop", "returned"}

\* C2: in enrich_igdb_with_steam_data, a record whose fetch was attempted
\* and failed for x has x in the failure list, which is the document
\* written once the driver has returned, and its output record has no
\* 'steamInfo' at all.
C2_FailedFetchRecorded ==
    EnrichRunning =>
        \A k \in FetchEvents :
            ~trace[k].ok =>
                /\ trace[k].app_id \in Elems(failed_steam_ids)
                /\ ~enriched_games[trace[k].pos].hasSteamInfo
                /\ pc = "returned" => failed_file = FileOk(failed_steam_ids)

C2_Witness ==
    /\ EnrichDone
    /\ \E k \in FetchEvents : ~trace[k].ok
    /\ \E k \in FetchEvents : trace[k].ok

\* C5: enrich_igdb_with_steam_data returns as many records as it was given,
\* in the same order, each equal to the input record of its position up to
\* the added 'steamInfo' (in the loop: of the positions done so far).
C5_OrderPreserved ==
    EnrichRunning =>
        /\ Len(enriched_games) = idx - 1
        /\ pc = "returned" => Len(enriched_games) = Len(arg_games)
        /\ \A p \in DOMAIN enriched_games :
               StripSteamInfo(enriched_games[p]) = arg_games[p]

C5_Witness ==
    /\ EnrichDone
    /\ Len(arg_games) = MaxGames
    /\ arg_games[1] # arg_games[2]
    /\ \E p \in DOMAIN enriched_games : enriched_games[p].hasSteamInfo
    /\ \E k \in FetchEvents : ~trace[k].ok

\* The positions done so far whose record has an extracted identifier in
\* the Steam app list.
GatedPositions ==
    {p \in DOMAIN enriched_games :
        LET found == EnrichFindSteamAppId(arg_games[p])
        IN  found.kind = "int" /\ found.v \in steam_apps_dict}

\* C6: an identifier that extraction finds but the Steam app list does not
\* hold never reaches get_steamspy_data, and the calls made are one for each
\* record whose extracted identifier is in the list.
C6_IndexGatesFetch ==
    EnrichRunning =>
        /\ \A k \in FetchEvents :
               /\ trace[k].app_id \in steam_apps_dict
               /\ EnrichFindSteamAppId(arg_games[trace[k].pos]) =
                      FoundId(trace[k].app_id)
        /\ Cardinality(FetchEvents) = Cardinality(GatedPositions)
        /\ \A p \in DOMAIN enriched_games :
               Cardinality(FetchesAt(p)) = IF p \in GatedPositions THEN 1 ELSE 0

C6_Witness ==
    /\ EnrichDone
    /\ \E p \in DOMAIN enriched_games :
           /\ Truthy(EnrichFindSteamAppId(arg_games[p]))
           /\ p \notin GatedPositions
    /\ GatedPositions # {}

\* C9: an output record of enrich_igdb_with_steam_data has 'steamInfo'
\* exactly when a fetch was attempted for it and succeeded; the field is the
\* payload returned, a success adds nothing to the failure list, and with
\* no failed attempt the list is empty and no failure document is written.
C9_EnrichedIffFetched ==
    EnrichRunning =>
        /\ \A p \in DOMAIN enriched_games :
               /\ enriched_games[p].hasSteamInfo <=>
                      \E k \in FetchesAt(p) : trace[k].ok
               /\ \A k \in FetchesAt(p) :
                      trace[k].ok => enriched_games[p].steamInfo = trace[k].data
        /\ \A x \in Ids :
               Count(failed_steam_ids, x) =
                   Cardinality({k \in FetchesOf(x) : ~trace[k].ok})
        /\ Len(failed_steam_ids) =
               Cardinality({k \in FetchEvents : ~trace[k].ok})
        /\ (pc = "returned" /\ \A k \in FetchEvents : trace[k].ok) =>
               failed_steam_ids = <<>> /\ failed_file = FileAbsent

C9_Witness ==
    /\ EnrichDone
    /\ FetchEvents # {}
    /\ \A k \in FetchEvents : trace[k].ok
    /\ \E p \in DOMAIN enriched_games : ~enriched_games[p].hasSteamInfo

\* A step of the retry loop leaves every record as it was, or gives the
\* record the lookup holds for the fetched identifier the payload of a
\* successful fetch for the identifier that record carries.
RetryStepKeepsFields ==
    (pc = "retry_loop" /\ pc' = "retry_loop" /\ idx' = idx + 1) =>
        /\ Len(enriched_games') = Len(enriched_games)
        /\ \A j \in DOMAIN enriched_games :
               LET g == enriched_games[j]
                   h == enriched_games'[j]
               IN  /\ g.hasSteamInfo => h.hasSteamInfo
                   /\ h # g =>
                          /\ Len(trace') = Len(trace) + 2
                          /\ LET e == trace'[Len(trace) + 1]
                             IN  /\ e.op = "fetch" /\ e.ok
                                 /\ RetryFindSteamAppId(g) = FoundId(e.app_id)
                                 /\ h = SetSteamInfo(g, e.data)
                                 /\ e.data.appid = e.app_id

\* The dataset a retry run writes keeps every field of the dataset it read.
RetrySaveKeepsFields ==
    (last_run = "retry" /\ pc = "retry_loop" /\ pc' = "idle"
        /\ enriched_file.state = "ok" /\ enriched_file'.state = "ok") =>
        \A j \in DOMAIN enriched_file.content :
            enriched_file.content[j].hasSteamInfo =>
                /\ j \in DOMAIN enriched_file'.content
                /\ enriched_file'.content[j].hasSteamInfo

\* The dataset on disk keeps every field it has, whichever run writes it.
AnySaveKeepsFields ==
    (enriched_file.state = "ok" /\ enriched_file'.state = "ok") =>
        \A j \in DOMAIN enriched_file.content :
            enriched_file.content[j].hasSteamInfo =>
                /\ j \in DOMAIN enriched_file'.content
                /\ enriched_file'.content[j].hasSteamInfo

\* C3 as stated: a 'steamInfo' that is set is never removed by a later step
\* of any sequence of enrich and retry runs, and is only overwritten by a
\* successful fetch for the record's own identifier.
C3_NeverCleared == [][RetryStepKeepsFields /\ AnySaveKeepsFields]_vars

\* C3 as amended: in a retry run a 'steamInfo' that is set is never removed,
\* a failed retry fetch leaves it as it was, it is only overwritten by a
\* successful fetch for the record's own identifier, and the dataset the
\* run writes keeps every field of the dataset it read. (An enrich run
\* writes the dataset anew from the catalog.)
C3_RetryNeverClears == [][RetryStepKeepsFields /\ RetrySaveKeepsFields]_vars

C3_Witness ==
    /\ mode = "main"
    /\ last_run = "retry"
    /\ pc = "idle"
    /\ exit = "done"
    /\ enriched_file.state = "ok"
    /\ \E k \in FetchEvents :
           /\ ~trace[k].ok
           /\ arg_games[steam_id_to_game_index[trace[k].app_id]].hasSteamInfo
           /\ enriched_file.content[steam_id_to_game_index[trace[k].app_id]]
                  .hasSteamInfo

\* The documents as the next run will load them.
NextFailed == LoadList(failed_file, TRUE)
NextGames == LoadList(enriched_file, TRUE)

\* C4: after the two saves of the retry main, whatever their outcomes, the
\* next load does not see an identifier of the retried list gone from the
\* failure document while its record in the dataset document lacks the
\* payload this retry fetched for it.
C4_SavesConsistent ==
    (mode = "main" /\ last_run = "retry" /\ pc = "idle" /\ exit = "done") =>
        \A x \in Elems(failed_steam_ids) :
            x \notin Elems(NextFailed) =>
                /\ x \in DOMAIN steam_id_to_game_index
                /\ steam_id_to_game_index[x] \in DOMAIN NextGames
                /\ NextGames[steam_id_to_game_index[x]].hasSteamInfo
                /\ \E k \in FetchesOf(x) :
                       /\ trace[k].ok
                       /\ NextGames[steam_id_to_game_index[x]].steamInfo.appid = x

\* C7: when every identifier of the failure list has a record in the lookup
\* and every fetch of the call succeeds, still_failed is empty and the
\* record of each identifier holds the payload last fetched for it.
C7_RetryConverges ==
    (/\ RetryDone
     /\ \A x \in Elems(failed_steam_ids) : x \in DOMAIN steam_id_to_game_index
     /\ \A k \in FetchEvents : trace[k].ok) =>
        /\ still_failed = <<>>
        /\ \A x \in Elems(failed_steam_ids) :
               LET g == enriched_games[steam_id_to_game_index[x]]
               IN  /\ g.hasSteamInfo
                   /\ g.steamInfo.appid = x
                   /\ \E k \in FetchesOf(x) :
                          /\ g.steamInfo = trace[k].data
                          /\ \A j \in FetchesOf(x) : j <= k

C7_Witness ==
    /\ RetryDone
    /\ Len(failed_steam_ids) = MaxGames
    /\ \A x \in Elems(failed_steam_ids) : x \in DOMAIN steam_id_to_game_index
    /\ \A k \in FetchEvents : trace[k].ok
    /\ \E x \in Elems(failed_steam_ids) :
           ~arg_games[steam_id_to_game_index[x]].hasSteamInfo

\* C8: when no fetch succeeds, retry_failed_fetches returns the failure
\* list it was given, in the same order, and leaves every record as it was;
\* called again on what it returned, any number of times, it still returns
\* the list and the records of the first call.
C8_PersistentFailure ==
    (RetryDone /\ ~chain.ok_seen) =>
        /\ still_failed = failed_steam_ids
        /\ enriched_games = arg_games
        /\ still_failed = chain.failed
        /\ enriched_games = chain.games

C8_Witness ==
    /\ RetryDone
    /\ runs = MaxRepeats
    /\ ~chain.ok_seen
    /\ Len(chain.failed) = MaxGames
    /\ chain.failed[1] # chain.failed[2]
    /\ Cardinality(FetchEvents) = 1

\* The entries of a record, and the positions whose source name is 'Steam'.
ExtOf(game) == IF game.hasExt THEN game.external_games ELSE <<>>
WellFormed(e) == e.external_game_source.hasSource /\ e.external_game_source.hasName
SteamPositions(ext) ==
    {k \in DOMAIN ext : WellFormed(ext[k]) /\ ext[k].external_game_source.name = "Steam"}
FirstOf(S) == CHOOSE k \in S : \A j \in S : k <= j

\* What the claim gives for a result: None without a Steam entry, the int
\* of the first Steam entry's uid when the uid is one.
FirstSteamResult(result, ext) ==
    IF SteamPositions(ext) = {} THEN result = FoundNone
    ELSE LET conv == IntOfUid(ext[FirstOf(SteamPositions(ext))].uid)
         IN  conv.ok => result = FoundId(conv.v)

\* The entries in front of the first Steam entry all have a source name.
ReadableToFirstSteam(ext) ==
    \A k \in DOMAIN ext :
        (\A j \in SteamPositions(ext) : k < j) => WellFormed(ext[k])

ExtractFirstSteam ==
    /\ probe.retry # NotCalled =>
           FirstSteamResult(probe.retry, ExtOf(probe.game))
    /\ (probe.enrich # NotCalled /\ ReadableToFirstSteam(ExtOf(probe.game))) =>
           FirstSteamResult(probe.enrich, ExtOf(probe.game))

\* C10: find_steam_app_id (both modules) returns the int of the uid of the
\* first entry, in list order, whose source name is exactly 'Steam', so of
\* the first of two such entries; a result, once returned for a record, is
\* what every later call returns for it.
C10_FirstSteamEntry ==
    /\ []ExtractFirstSteam
    /\ [][/\ probe.enrich # NotCalled => probe'.enrich = probe.enrich
          /\ probe.retry # NotCalled => probe'.retry = probe.retry]_vars

C10_Witness ==
    LET ext == ExtOf(probe.game)
    IN  /\ Len(ext) = 2
        /\ SteamPositions(ext) = {1, 2}
        /\ IntOfUid(ext[1].uid).ok
        /\ IntOfUid(ext[2].uid).ok
        /\ IntOfUid(ext[1].uid).v # IntOfUid(ext[2].uid).v
        /\ probe.enrich = FoundId(IntOfUid(ext[1].uid).v)
        /\ probe.retry = probe.enrich

\* C11: find_steam_app_id, in the enrich and in the retry module, returns
\* an int or None for every record and never raises, whatever is missing
\* from the record's cross-reference entries.
C11_ExtractNeverRaises ==
    /\ probe.enrich.kind # "raise"
    /\ probe.retry.kind # "raise"

\* The Steam entries whose uid int() converts, and what a scan that skips
\* the others returns.
ConvertiblePositions(ext) == {k \in SteamPositions(ext) : IntOfUid(ext[k].uid).ok}
SkipResult(ext) ==
    IF ConvertiblePositions(ext) = {} THEN FoundNone
    ELSE FoundId(IntOfUid(ext[FirstOf(ConvertiblePositions(ext))].uid).v)

\* The entries in front of the first convertible Steam entry (all entries
\* when there is none) have a source name.
ReadableToResult(ext) ==
    \A k \in DOMAIN ext :
        (\A j \in ConvertiblePositions(ext) : k < j) => WellFormed(ext[k])

\* C12: a Steam entry whose uid int() cannot convert is skipped without an
\* error and the scan goes on, so find_steam_app_id returns the int of the
\* first Steam entry whose uid converts, and None when there is none.
C12_SkipsNonNumeric ==
    /\ probe.retry # NotCalled => probe.retry = SkipResult(ExtOf(probe.game))
    /\ (probe.enrich # NotCalled /\ ReadableToResult(ExtOf(probe.game))) =>
           probe.enrich = SkipResult(ExtOf(probe.game))

C12_Witness ==
    LET ext == ExtOf(probe.game)
    IN  /\ Len(ext) = 2
        /\ SteamPositions(ext) = {1, 2}
        /\ ~IntOfUid(ext[1].uid).ok
        /\ IntOfUid(ext[2].uid).ok
        /\ probe.enrich = FoundId(IntOfUid(ext[2].uid).v)
        /\ probe.retry = FoundId(IntOfUid(ext[2].uid).v)

\* The response parses to an object whose 'appid' is the id asked for.
EchoesRequested ==
    /\ call.resp.kind = "json"
    /\ ~call.resp.empty
    /\ call.resp.hasAppid
    /\ call.resp.appid = call.app_id

\* What the claim gives for a result of get_steamspy_data.
PayloadOnlyOnMatch(res) ==
    res.called =>
        /\ res.ok <=> EchoesRequested
        /\ res.ok => res.data = Payload(call.app_id, call.resp.owners)
        /\ ~res.ok => res = Returned(FetchNone)

\* C13: get_steamspy_data (both modules) returns a payload exactly when the
\* response parses and its 'appid' equals the id asked for, and the payload
\* is that of the response; a body with another 'appid', without the field
\* or empty gives None.
C13_PayloadOnlyOnMatch ==
    PayloadOnlyOnMatch(call.enrich) /\ PayloadOnlyOnMatch(call.retry)

C13_Witness ==
    /\ call.enrich.called
    /\ call.retry.called
    /\ call.resp.kind = "json"
    /\ call.resp.hasAppid
    /\ call.resp.appid \in Ids \ {call.app_id}
    /\ ~call.enrich.ok
    /\ ~call.retry.ok

\* The list a driver walks, and why the enrich driver can stop with an
\* exception: find_steam_app_id raises on the record at idx, or the write
\* of the failure document after the loop fails.
DriverInput == IF last_run = "enrich" THEN igdb_games ELSE failed_steam_ids
EnrichAbortCause ==
    \/ /\ idx <= Len(igdb_games)
       /\ EnrichFindSteamAppId(igdb_games[idx]).kind = "raise"
    \/ /\ idx > Len(igdb_games)
       /\ failed_steam_ids # <<>>

\* No state of a driver is an abort by a fetch, the loop is past every
\* position whose fetch failed, and a driver that returns has walked its
\* whole list.
FetchFailureIsData ==
    /\ (pc = "raised" /\ last_run = "enrich") => EnrichAbortCause
    /\ last_run = "retry" => pc # "raised"
    /\ \A k \in FetchEvents : ~trace[k].ok => idx > trace[k].pos
    /\ pc = "returned" => idx = Len(DriverInput) + 1

\* A step with a failed fetch is a step to the next position of the loop.
FailedFetchGoesOn ==
    (Len(trace') > Len(trace) /\ ~trace'[Len(trace) + 1].ok) =>
        /\ pc' = pc
        /\ idx' = idx + 1
        /\ trace'[Len(trace) + 1].pos = idx

\* C14: every failure of a fetch (transport error, non-2xx status, malformed
\* body, 'appid' mismatch) is a returned None, never an exception out of
\* get_steamspy_data, so it aborts neither enrich_igdb_with_steam_data nor
\* retry_failed_fetches: the loop goes on to the next position and the
\* driver walks its whole list.
C14_FetchFailureNeverAborts ==
    []FetchFailureIsData /\ [][FailedFetchGoesOn]_vars

C14_Witness ==
    /\ pc = "returned"
    /\ \E k, j \in FetchEvents :
           /\ ~trace[k].ok
           /\ trace[j].pos > trace[k].pos

\* A step that starts a run whose first document cannot be read.
EnrichLoadFails ==
    pc = "idle" /\ runs' = runs + 1 /\ last_run' = "enrich" /\ igdb_file.state # "ok"
RetryLoadFails ==
    pc = "idle" /\ runs' = runs + 1 /\ last_run' = "retry" /\ failed_file.state # "ok"

\* The step that ends a run, in which the first of its writes has failed.
EnrichFailureWriteFails ==
    /\ last_run = "enrich" /\ pc = "enrich_loop" /\ pc' = "idle"
    /\ failed_steam_ids # <<>>
    /\ failed_file' # FileOk(failed_steam_ids)
RetryDatasetWriteFails ==
    /\ last_run = "retry" /\ pc = "retry_loop" /\ pc' = "idle"
    /\ enriched_file' # FileOk(enriched_games)

\* A failed load or write ends the run: no driver is entered after a failed
\* load and no other document is written after a failed write.
FailureEndsRun ==
    /\ (EnrichLoadFails \/ RetryLoadFails) =>
           pc' = "idle" /\ exit' = "early" /\ trace' = <<>> /\ UNCHANGED files
    /\ EnrichFailureWriteFails => enriched_file' = enriched_file
    /\ RetryDatasetWriteFails => failed_file' = failed_file

\* C15: in the enrich main and in the retry main a document that cannot be
\* read or written ends the run at that step: no load, fetch or save
\* follows the failed one.
C15_PersistenceFailureFatal == [][FailureEndsRun]_vars

\* C16: failed_steamspy_fetches.json is written only with a non-empty list:
\* no enrich run and no retry run leaves a document that holds [].
C16_NeverEmptyFailureDocument == failed_file # FileOk(<<>>)

\* The identifier app_id is the one some record of the dataset carries.
CarriedBy(games, app_id) ==
    {j \in DOMAIN games : RetryFindSteamAppId(games[j]) = FoundId(app_id)}

\* The retry loop is at an identifier that no record of the dataset carries.
AtLookupMiss ==
    /\ last_run = "retry"
    /\ pc = "retry_loop"
    /\ idx <= Len(failed_steam_ids)
    /\ CarriedBy(arg_games, failed_steam_ids[idx]) = {}

\* C17: in retry_failed_fetches an identifier of the failure list that no
\* record of the dataset carries (so the lookup does not hold it) goes to
\* still_failed with no get_steamspy_data call and no sleep, and every
\* record stays as it was.
C17_LookupMissNoFetch ==
    [][AtLookupMiss =>
          /\ still_failed' = Append(still_failed, failed_steam_ids[idx])
          /\ trace' = trace
          /\ enriched_games' = enriched_games
          /\ success_count' = success_count
          /\ idx' = idx + 1
          /\ pc' = pc]_vars

C17_Witness ==
    /\ RetryDone
    /\ runs = 0
    /\ \E p, q \in DOMAIN failed_steam_ids :
           /\ CarriedBy(arg_games, failed_steam_ids[p]) = {}
           /\ failed_steam_ids[p] \in Elems(still_failed)
           /\ FetchesAt(p) = {}
           /\ FetchesAt(q) # {}
    /\ arg_games # <<>>

SleepEvents == {k \in DOMAIN trace : trace[k].op = "sleep"}

\* C18: in both drivers the calls made are, in order, a get_steamspy_data
\* call and then one time.sleep for each attempt, whatever the fetch
\* returned: every fetch is followed at once by one delay for the same
\* position, so a fetch has returned and been paced before the next one
\* starts, the attempts are made in the order of the list, one at most for
\* a position, and a position without a fetch has no delay.
C18_PacedSequential ==
    /\ \A k \in FetchEvents :
           /\ k + 1 \in SleepEvents
           /\ trace[k + 1].pos = trace[k].pos
           /\ trace[k + 1].app_id = trace[k].app_id
    /\ \A k \in SleepEvents : k - 1 \in FetchEvents
    /\ Cardinality(SleepEvents) = Cardinality(FetchEvents)
    /\ \A j, k \in FetchEvents : j < k => trace[j].pos < trace[k].pos
    /\ \A k \in DOMAIN trace : trace[k].pos < idx
    /\ \A p \in 1..(idx - 1) :
           FetchesAt(p) = {} => \A k \in SleepEvents : trace[k].pos # p

C18_Witness ==
    /\ pc = "returned"
    /\ Cardinality(FetchEvents) = 2
    /\ \E k \in FetchEvents : trace[k].ok
    /\ \E k \in FetchEvents : ~trace[k].ok

\* The enrich driver's input list is as it was when the driver was called.
EnrichKeepsInput == last_run = "enrich" => igdb_games = arg_games

\* The records passed to the retry driver are as they were, but for a
\* 'steamInfo' set to the payload of a successful fetch of this call for
\* the identifier the record carries.
RetryOnlySetsField ==
    (last_run = "retry" /\ mode = "fn") =>
        /\ Len(enriched_games) = Len(arg_games)
        /\ \A j \in DOMAIN enriched_games :
               \/ enriched_games[j] = arg_games[j]
               \/ \E k \in FetchEvents :
                      /\ trace[k].ok
                      /\ RetryFindSteamAppId(arg_games[j]) = FoundId(trace[k].app_id)
                      /\ enriched_games[j] = SetSteamInfo(arg_games[j], trace[k].data)

\* A step of the enrich driver leaves the Steam app list as it is.
EnrichKeepsIndex == last_run = "enrich" => steam_apps_dict' = steam_apps_dict

\* C19: enrich_igdb_with_steam_data leaves its input list and the Steam app
\* dict as they were (the 'steamInfo' goes to the copy only), while
\* retry_failed_fetches changes the records it is passed only by setting
\* 'steamInfo' on records whose fetch succeeded.
C19_InputNotMutated ==
    /\ [](EnrichKeepsInput /\ RetryOnlySetsField)
    /\ [][EnrichKeepsIndex]_vars

C19_Witness ==
    /\ EnrichDone
    /\ \E p \in DOMAIN enriched_games :
           /\ enriched_games[p].hasSteamInfo
           /\ ~igdb_games[p].hasSteamInfo
    /\ \E k \in FetchEvents : ~trace[k].ok

\* A retry run has ended after its two saves, and every fetch it made
\* succeeded. (A retry run gets past its loads only behind an enrich run
\* that wrote both documents.)
RetryRunAllFetched ==
    /\ mode = "main"
    /\ last_run = "retry"
    /\ pc = "idle"
    /\ exit = "done"
    /\ \A k \in FetchEvents : trace[k].ok

\* C20: when an enrich run is followed by a retry run on the dataset and
\* the failure list it wrote, and every fetch of the retry succeeds, every
\* record whose extracted identifier is in the Steam app list has
\* 'steamInfo', also when two records carry the same identifier.
C20_RetryReachesEveryFailed ==
    RetryRunAllFetched =>
        \A j \in DOMAIN enriched_games :
            LET found == RetryFindSteamAppId(enriched_games[j])
            IN  (Truthy(found) /\ found.v \in steam_applist) =>
                    enriched_games[j].hasSteamInfo

\* A run has gone through its driver and its saves, and the dataset on
\* disk is the one this run produced.
RunCompleted ==
    /\ mode = "main"
    /\ pc = "idle"
    /\ exit = "done"
    /\ enriched_file = FileOk(enriched_games)

\* The identifiers whose fetch failed in the run that has just ended.
FailuresOfRun == IF last_run = "enrich" THEN failed_steam_ids ELSE still_failed

\* C21: after any sequence of completed enrich and retry runs, a failure
\* document on disk lists the identifiers that failed in the run that wrote
\* the dataset on disk; a run without failures leaves no list of an earlier
\* run for the retry to load.
C21_FailureDocumentCurrent ==
    RunCompleted => NextFailed = FailuresOfRun

\* Every answer so far holds at most the records its request asked for.
WithinLimit == \A k \in DOMAIN requests : requests[k].got <= requests[k].limit

\* An answer with all the records asked for.
FullBatch(r) == r.got = r.limit /\ r.got > 0

\* C22: in fetch_games, as long as no answer holds more records than its
\* limit, each request's offset is the number of records collected so far,
\* its limit is at most the cap and at most what max_games leaves, the
\* records collected are those of ranks 1, 2, ... with none skipped or
\* repeated and never more than max_games, a further request is made only
\* behind a full batch, and the call returns at the first empty or short
\* batch or when max_games records are collected.
C22_PagedFetch ==
    WithinLimit =>
        /\ \A k \in DOMAIN requests :
               /\ requests[k].offset = requests[k].collected
               /\ requests[k].limit \in 1..BatchCap
               /\ ~max_games.none =>
                      requests[k].collected + requests[k].limit <= max_games.n
               /\ k < Len(requests) => FullBatch(requests[k])
        /\ ~max_games.none => Len(all_games) <= max_games.n
        /\ all_games = Batch(0, Len(all_games))
        /\ igdb_pc = "loop" =>
               /\ offset = Len(all_games)
               /\ \A k \in DOMAIN requests : FullBatch(requests[k])
        /\ (igdb_pc = "returned" /\ access_token) =>
               \/ ~max_games.none /\ Len(all_games) = max_games.n
               \/ requests # <<>> /\ ~FullBatch(requests[Len(requests)])

C22_Witness ==
    /\ igdb_pc = "returned"
    /\ WithinLimit
    /\ Len(requests) = 2
    /\ requests[2].offset = 2
    /\ requests[2].got \in 1..(requests[2].limit - 1)
    /\ Len(all_games) = 3

====
